---- MODULE Spec2Model ----
(***************************************************************************)
(* Model of the Roof MRI proposal backend (src/server.js, the current      *)
(* revision, which starts at line 531): the proposals table, the Stripe    *)
(* checkout sessions, the outbound notifications, and one action per store *)
(* access or outbound call of every request handler.  JavaScript runs a    *)
(* handler without interruption between two awaits, and each query is one  *)
(* statement in the database, so the code from one await to the next is    *)
(* one atomic action and the handlers interleave at their awaits.          *)
(*                                                                         *)
(* A request answered before its handler suspends (a validation error, a   *)
(* read) is one action.  Every action that ends a request puts the         *)
(* response in resp; Flush clears it before the next step, so resp is the  *)
(* response of the step that led to the current state.                     *)
(*                                                                         *)
(* Outbound calls (SendGrid, Stripe) may reject.  Database errors, the     *)
(* rate limiters and CORS are not modelled.  Strings are sequences of      *)
(* characters, a signature image is its length, a price is a number of     *)
(* thousandths of a dollar.                                                *)
(*                                                                         *)
(* Spec and SpecAny draw a request at every step, from few inputs, and     *)
(* take a Create as having passed requireAdmin or been refused by it.      *)
(* SpecRequest holds one request in input and serves it on a table drawn   *)
(* at the start, with requireAdmin, the query parameters of the list and   *)
(* the request bodies in full.  Two of its requests come with what the     *)
(* proposal page does next: a Create followed by the page fetching the     *)
(* proposal (the summary rows of ProposalPage.jsx), and the polling the    *)
(* page starts when it returns from a payment (pollPayment).  SpecSetup    *)
(* is the admin setup endpoint alone, on an empty admin_users table.       *)
(***************************************************************************)
EXTENDS Integers, Sequences, FiniteSets, TLC

VARIABLES
  proposals,   \* the proposals table: id -> row, or NoRow
  now,         \* the database clock read by NOW()
  reqs,        \* request handlers suspended at an await: slot -> frame
  sessions,    \* Stripe checkout sessions created so far, by session id
  foreign,     \* verified events delivered that no session of this server produced
  resp,        \* the response sent by the last step, NoResp if it sent none
  signLog,     \* per proposal id: responses to the Sign requests that found the row
  viewed,      \* per proposal id: tracked View requests answered
  mails,       \* per proposal id: notifications handed to SendGrid
  faults,      \* outbound calls (SendGrid, Stripe) that have failed so far
  served,      \* requests admitted so far (those answered at once are not counted)
  input,       \* the request a run examines, NoInput when requests are drawn step by step
  admin_users  \* the admin_users table: rows in the order of their SERIAL id

vars == <<proposals, now, reqs, sessions, foreign, resp, signLog, viewed, mails, faults, served, input, admin_users>>

---------------------------------------------------------------------------
(* Bounds of the model *)

MaxIds == 1          \* distinct values generateId() can return
MaxReqs == 2         \* handlers suspended at an await at the same time
MaxTime == 2         \* clock values
MaxSessions == 2     \* checkout sessions Stripe creates
MaxDeliveries == 2   \* deliveries of one session's completion event
MaxForeign == 1      \* deliveries of verified events of other origin
MaxSigns == 2        \* well-formed Sign requests per proposal id
MaxOpens == 2        \* tracked views per proposal
MaxFaults == 1       \* outbound calls that fail
MaxRequests == 5     \* requests admitted in one run

Ids == 1..MaxIds
Slots == 1..MaxReqs
ForeignSid == MaxSessions + 1   \* session id carried by an event of other origin
UnknownId == MaxIds + 1         \* a correlation id that no proposal has

---------------------------------------------------------------------------
(* Nullable values: SQL NULL / JS null and undefined are the empty tuple,  *)
(* a present value v is <<v>>.                                             *)

Null == <<>>
Some(v) == <<v>>
IsNull(v) == v = Null
Val(v) == v[1]

(* Strings are sequences of characters. *)
Str(c) == <<c>>
EmptyStr == <<>>

RECURSIVE stripHtmlSeq(_)
stripHtmlSeq(s) ==
  IF s = <<>> THEN <<>>
  ELSE IF Head(s) \in {"<", ">"} THEN stripHtmlSeq(Tail(s))
       ELSE <<Head(s)>> \o stripHtmlSeq(Tail(s))

\* stripHtml: str.replace(/[<>]/g, '')
stripHtml(s) == stripHtmlSeq(s)

\* isValidEmail: /^[^\s@]+@[^\s@]+\.[^\s@]+$/
isValidEmail(e) ==
  /\ \A i \in 1..Len(e) : e[i] # " "
  /\ Cardinality({i \in 1..Len(e) : e[i] = "@"}) = 1
  /\ \E i \in 2..Len(e) :
       /\ e[i] = "@"
       /\ \E j \in (i + 2)..(Len(e) - 1) : e[j] = "."

\* a ?? b: b when a is null or undefined
Nullish(a, b) == IF IsNull(a) THEN b ELSE a

\* mutant: the empty string counts as given
TruthyPresent(v) == ~IsNull(v)

\* JavaScript truthiness of a nullable string: null, undefined and '' are falsy
Truthy(v) == ~IsNull(v) /\ Val(v) # EmptyStr

---------------------------------------------------------------------------
(* The proposals table (initDB) and the queries the handlers run on it *)

NoRow == [absent |-> TRUE]

\* mutant: the row is stored as already opened once
NewRowOpened(id, data, t) ==
  [ id                |-> id,
    contact_name      |-> data.contactName,
    company           |-> data.company,
    email             |-> data.email,
    tier              |-> data.tier,
    extra_trainees    |-> Nullish(data.extraTrainees, Some(0)),
    extra_kits        |-> Nullish(data.extraKits, Some(0)),
    total_price       |-> data.totalPrice,
    let_client_choose |-> Nullish(data.letClientChoose, Some(FALSE)),
    status            |-> "sent",
    signature_name    |-> Null,
    signature_data    |-> Null,
    signed_at         |-> Null,
    created_at        |-> t,
    opened_at         |-> Some(t),
    open_count        |-> 1,
    payment_status    |-> "unpaid",
    stripe_session_id |-> Null ]

\* INSERT INTO proposals (...) with the column defaults of CREATE TABLE
NewRow(id, data, t) ==
  [ id                |-> id,
    contact_name      |-> data.contactName,
    company           |-> data.company,
    email             |-> data.email,
    tier              |-> data.tier,
    extra_trainees    |-> Nullish(data.extraTrainees, Some(0)),
    extra_kits        |-> Nullish(data.extraKits, Some(0)),
    total_price       |-> data.totalPrice,
    let_client_choose |-> Nullish(data.letClientChoose, Some(FALSE)),
    status            |-> "sent",
    signature_name    |-> Null,
    signature_data    |-> Null,
    signed_at         |-> Null,
    created_at        |-> t,
    opened_at         |-> Null,
    open_count        |-> 0,
    payment_status    |-> "unpaid",
    stripe_session_id |-> Null ]

Exists(tbl, id) == id \in DOMAIN tbl /\ tbl[id] # NoRow

\* SELECT * FROM proposals WHERE id = $1  (the rows, as a sequence)
SelectById(tbl, id) == IF Exists(tbl, id) THEN <<tbl[id]>> ELSE <<>>

\* mutant: INSERT ... ON CONFLICT (id) DO UPDATE, the key is never refused
CanInsertUpsert(tbl, id) == TRUE

\* mutant: the row is not written
InsertNothing(tbl, row) == tbl

\* id TEXT PRIMARY KEY: the insert is refused when the key is taken
CanInsert(tbl, id) == ~Exists(tbl, id)
Insert(tbl, row) == [tbl EXCEPT ![row.id] = row]

\* mutant: the UPDATE counts the first open only
TrackOpenFirstOnly(tbl, id, t) ==
  IF Exists(tbl, id)
  THEN [tbl EXCEPT ![id].opened_at = IF IsNull(@) THEN Some(t) ELSE @,
                   ![id].open_count = IF @ = 0 THEN 1 ELSE @]
  ELSE tbl

\* mutant: opened_at = NOW(), without the COALESCE
CoalesceLatest(a, b) == b

\* COALESCE(opened_at, NOW())
Coalesce(a, b) == IF IsNull(a) THEN b ELSE a

\* mutant: the UPDATE without opened_at = COALESCE(opened_at, NOW())
TrackOpenCountOnly(tbl, id, t) ==
  IF Exists(tbl, id)
  THEN [tbl EXCEPT ![id].open_count = @ + 1]
  ELSE tbl

\* UPDATE proposals SET opened_at = COALESCE(opened_at, NOW()),
\*   open_count = open_count + 1 WHERE id = $1
TrackOpen(tbl, id, t) ==
  IF Exists(tbl, id)
  THEN [tbl EXCEPT ![id].opened_at = Coalesce(@, Some(t)),
                   ![id].open_count = @ + 1]
  ELSE tbl

\* mutant: the UPDATE without AND status != 'signed'
SignMatchesSigned(tbl, id) == Exists(tbl, id)

\* WHERE id = $3 AND status != 'signed'
SignMatches(tbl, id) == Exists(tbl, id) /\ tbl[id].status # "signed"

\* mutant: the UPDATE without signed_at = NOW()
SignUpdateNoTimestamp(tbl, id, name, data, t) ==
  IF Exists(tbl, id) /\ tbl[id].status # "signed"
  THEN [tbl EXCEPT ![id].status = "signed",
                   ![id].signature_name = Some(name),
                   ![id].signature_data = Some(data)]
  ELSE tbl

\* UPDATE proposals SET status = 'signed', signature_name = $1,
\*   signature_data = $2, signed_at = NOW() WHERE id = $3 AND status != 'signed'
SignUpdate(tbl, id, name, data, t) ==
  IF SignMatches(tbl, id)
  THEN [tbl EXCEPT ![id].status = "signed",
                   ![id].signature_name = Some(name),
                   ![id].signature_data = Some(data),
                   ![id].signed_at = Some(t)]
  ELSE tbl

\* WHERE id = $2
PaidMatches(tbl, id) == Exists(tbl, id)

\* mutant: the UPDATE without stripe_session_id = $1
PaidUpdateStatusOnly(tbl, id, sid) ==
  IF Exists(tbl, id)
  THEN [tbl EXCEPT ![id].payment_status = "paid"]
  ELSE tbl

\* mutant: the UPDATE also clears total_price
PaidUpdateRepricing(tbl, id, sid) ==
  IF Exists(tbl, id)
  THEN [tbl EXCEPT ![id].payment_status = "paid",
                   ![id].stripe_session_id = Some(sid),
                   ![id].total_price = Null]
  ELSE tbl

\* UPDATE proposals SET payment_status = 'paid', stripe_session_id = $1 WHERE id = $2
PaidUpdate(tbl, id, sid) ==
  IF PaidMatches(tbl, id)
  THEN [tbl EXCEPT ![id].payment_status = "paid",
                   ![id].stripe_session_id = Some(sid)]
  ELSE tbl

---------------------------------------------------------------------------
(* Requests, responses, notifications *)

Idle == [op |-> "idle"]
NoInput == [op |-> "none"]
NoResp == [op |-> "none"]
Resp(op, id, code, body) == [op |-> op, id |-> id, code |-> code, body |-> body]

IdleSlots == {r \in Slots : reqs[r] = Idle}
\* a handler that suspends takes the first free frame
FreeSlot == CHOOSE r \in IdleSlots : \A q \in IdleSlots : r <= q

NoMails == [client |-> 0, internal |-> 0, signed |-> 0, paid |-> 0]
NoSigns == [ok |-> 0, conflict |-> 0, notfound |-> 0, error |-> 0]

\* sgMail.send either resolves or rejects
MailOutcomes == {"sent", "failed"}
\* stripe.checkout.sessions.create either resolves or rejects
GatewayOutcomes == {"created", "failed"}

\* an outbound call resolves, or rejects (a bounded number of times)
Outbound(outcome) ==
  /\ outcome \in {"failed"} => faults < MaxFaults
  /\ faults' = IF outcome \in {"failed"} THEN faults + 1 ELSE faults

\* a request whose handler goes on past its first query takes a frame
Admit ==
  /\ served < MaxRequests
  /\ IdleSlots # {}
  /\ served' = served + 1

\* res.json / res.send: the response leaves; resp shows it for the one state after
\* the step that sent it, and the handlers never read it
Flush ==
  /\ resp # NoResp
  /\ resp' = NoResp
  /\ UNCHANGED <<proposals, now, reqs, sessions, foreign, signLog, mails, faults, served, viewed, input, admin_users>>

\* no response is waiting to leave
Flushed == resp = NoResp

Init ==
  /\ proposals = [i \in Ids |-> NoRow]
  /\ now = 1
  /\ reqs = [r \in Slots |-> Idle]
  /\ sessions = <<>>
  /\ foreign = 0
  /\ resp = NoResp
  /\ signLog = [i \in Ids |-> NoSigns]
  /\ viewed = [i \in Ids |-> 0]
  /\ mails = [i \in Ids |-> NoMails]
  /\ faults = 0
  /\ served = 0
  /\ input = NoInput
  /\ admin_users = <<>>

\* time passes
Tick ==
  /\ Flushed
  /\ now < MaxTime
  /\ now' = now + 1
  /\ resp' = NoResp
  /\ UNCHANGED <<proposals, reqs, sessions, foreign, signLog, mails, faults, served, viewed, input, admin_users>>


---------------------------------------------------------------------------
(* POST /api/send-proposal *)

\* mutant: the snake_case spelling is taken first
NormalizeSnakeFirst(body) ==
  [ contactName     |-> Nullish(body.contact_name, body.contactName),
    company         |-> Nullish(body.company_name, body.company),
    email           |-> Nullish(body.contact_email, body.email),
    tier            |-> body.tier,
    letClientChoose |-> Nullish(body.let_client_choose, body.letClientChoose),
    extraTrainees   |-> Nullish(body.extra_trainees, body.extraTrainees),
    extraKits       |-> Nullish(body.extra_kits, body.extraKits),
    totalPrice      |-> Nullish(body.total_price, body.totalPrice) ]

\* data.x = data.x ?? data.x_alt, for the fields the model carries; tier has one spelling
Normalize(body) ==
  [ contactName     |-> Nullish(body.contactName, body.contact_name),
    company         |-> Nullish(body.company, body.company_name),
    email           |-> Nullish(body.email, body.contact_email),
    tier            |-> body.tier,
    letClientChoose |-> Nullish(body.letClientChoose, body.let_client_choose),
    extraTrainees   |-> Nullish(body.extraTrainees, body.extra_trainees),
    extraKits       |-> Nullish(body.extraKits, body.extra_kits),
    totalPrice      |-> Nullish(body.totalPrice, body.total_price) ]

\* !data.email || !data.contactName || !data.company, then !isValidEmail(data.email)
CreateInvalid(data) ==
  \/ ~Truthy(data.email) \/ ~Truthy(data.contactName) \/ ~Truthy(data.company)
  \/ ~isValidEmail(Val(data.email))

\* data.contactName = stripHtml(data.contactName); ... company; ... email
Sanitize(data) ==
  [data EXCEPT !.contactName = Some(stripHtml(Val(@))),
               !.company = Some(stripHtml(Val(@))),
               !.email = Some(stripHtml(Val(@)))]

\* mutant: the extras are left out of the totals
OrZeroDropped(v) == 0

\* x || 0 on a number that may be absent
OrZero(v) == IF IsNull(v) THEN 0 ELSE Val(v)

\* a flag that may be absent, taken as a condition
Flag(v) == ~IsNull(v) /\ Val(v)

\* buildEmail: tier === 'professional' ? 3 : tier === 'regional' ? 10 : 25
traineeCount(tier) ==
  IF tier = Some("professional") THEN 3 ELSE IF tier = Some("regional") THEN 10 ELSE 25

\* buildEmail: tier === 'professional' ? 1 : tier === 'regional' ? 2 : 4
kitCount(tier) ==
  IF tier = Some("professional") THEN 1 ELSE IF tier = Some("regional") THEN 2 ELSE 4

NoTotals == [trainees |-> Null, kits |-> Null]

\* buildEmail: the Trainees and Recon Kits rows of the summary, absent when the
\* client chooses the tier
buildEmail(data) ==
  IF Flag(data.letClientChoose) THEN NoTotals
  ELSE [ trainees |-> Some(traineeCount(data.tier) + OrZero(data.extraTrainees)),
         kits     |-> Some(kitCount(data.tier) + OrZero(data.extraKits)) ]

GoodEmail == <<"a", "@", "b", ".", "c">>
\* prices are decimal dollar amounts, written in thousandths of a dollar
PriceInputs == {Null, Some(0), Some(5000)}

\* a body that names no package: tier, extras and letClientChoose are left out
CreateBody(name, company, email, price) ==
  [ contactName |-> name, contact_name |-> Null,
    company |-> company, company_name |-> Null,
    email |-> email, contact_email |-> Null,
    tier |-> Null,
    letClientChoose |-> Null, let_client_choose |-> Null,
    extraTrainees |-> Null, extra_trainees |-> Null,
    extraKits |-> Null, extra_kits |-> Null,
    totalPrice |-> price, total_price |-> Null ]

\* request bodies the admin sends
CreateBodies ==
  {CreateBody(Some(Str("J")), Some(Str("A")), Some(GoodEmail), pr) : pr \in PriceInputs}
    \cup {CreateBody(Some(Str("J")), Some(Str("A")), Null, Null)}

\* generateId(): 6 random bytes.  Ids are opaque tokens, so the model names them
\* in the order of first use: a draw is a key already stored or the next unused one.
GeneratedIds == {i \in Ids : \A j \in 1..(i - 1) : Exists(proposals, j)}

\* requireAdmin, validation, generateId and the INSERT
CreateStart(authed, body, id) ==
  LET data == Normalize(body) IN
  /\ Flushed
  /\ id \in GeneratedIds
  /\ UNCHANGED <<now, sessions, foreign, signLog, mails, faults, viewed, input, admin_users>>
  /\ IF ~authed
     THEN /\ resp' = Resp("create", Null, 401, Null)
          /\ UNCHANGED <<proposals, reqs, served>>
     ELSE IF CreateInvalid(data)
     THEN /\ resp' = Resp("create", Null, 400, Null)
          /\ UNCHANGED <<proposals, reqs, served>>
     ELSE IF ~CanInsert(proposals, id)
     THEN /\ resp' = Resp("create", Some(id), 500, Null)
          /\ UNCHANGED <<proposals, reqs, served>>
     ELSE /\ proposals' = Insert(proposals, NewRow(id, Sanitize(data), now))
          /\ Admit
          /\ reqs' = [reqs EXCEPT ![FreeSlot] = [op |-> "create", pc |-> "clientMail", id |-> id,
                         html |-> buildEmail(Sanitize(data))]]
          /\ resp' = NoResp

\* await sgMail.send({ to: data.email, ... })
CreateClientMail(r, outcome) ==
  /\ Flushed
  /\ Outbound(outcome)
  /\ reqs[r].op = "create" /\ reqs[r].pc = "clientMail"
  /\ UNCHANGED <<proposals, now, sessions, foreign, signLog, served, viewed, input, admin_users>>
  /\ IF outcome = "sent"
     THEN /\ mails' = [mails EXCEPT ![reqs[r].id].client = @ + 1]
          /\ reqs' = [reqs EXCEPT ![r].pc = "internalMail"]
          /\ resp' = NoResp
     ELSE /\ reqs' = [reqs EXCEPT ![r] = Idle]
          /\ resp' = Resp("create", Some(reqs[r].id), 500, Null)
          /\ UNCHANGED mails

\* await sgMail.send({ to: 'adam@re-dry.com', ... }); res.json({ success: true, ... })
CreateInternalMail(r, outcome) ==
  /\ Flushed
  /\ Outbound(outcome)
  /\ reqs[r].op = "create" /\ reqs[r].pc = "internalMail"
  /\ UNCHANGED <<proposals, now, sessions, foreign, signLog, served, viewed, input, admin_users>>
  /\ reqs' = [reqs EXCEPT ![r] = Idle]
  /\ IF outcome = "sent"
     THEN /\ mails' = [mails EXCEPT ![reqs[r].id].internal = @ + 1]
          /\ resp' = Resp("create", Some(reqs[r].id), 200, Null)
     ELSE /\ resp' = Resp("create", Some(reqs[r].id), 500, Null)
          /\ UNCHANGED mails

---------------------------------------------------------------------------
(* GET /api/proposals/:id *)

\* tracking updates done or pending on a row
OpensIssued(id) ==
  proposals[id].open_count
    + Cardinality({r \in Slots : reqs[r].op = "view" /\ reqs[r].id = id})

\* mutant: the tracking UPDATE runs whatever ?track says
TracksAlways(track) == TRUE

\* req.query.track !== 'false'
Tracks(track) == track

\* SELECT; 404 when there is no row; respond at once when ?track=false
ViewStart(id, track) ==
  LET rows == SelectById(proposals, id) IN
  /\ Flushed
  /\ UNCHANGED <<proposals, now, sessions, foreign, signLog, mails, faults, viewed, input, admin_users>>
  /\ IF Len(rows) = 0
     THEN /\ resp' = Resp("view", Some(id), 404, Null)
          /\ UNCHANGED <<reqs, served>>
     ELSE IF Tracks(track)
     THEN /\ OpensIssued(id) < MaxOpens
          /\ Admit
          /\ reqs' = [reqs EXCEPT ![FreeSlot] =
                        [op |-> "view", pc |-> "track", id |-> id, track |-> track, row |-> rows[1]]]
          /\ resp' = NoResp
     ELSE /\ resp' = Resp("view", Some(id), 200, rows[1])
          /\ UNCHANGED <<reqs, served>>

\* the tracking UPDATE, then res.json(rows[0])
ViewTrack(r) ==
  /\ Flushed
  /\ reqs[r].op = "view" /\ reqs[r].pc = "track"
  /\ proposals' = TrackOpen(proposals, reqs[r].id, now)
  /\ reqs' = [reqs EXCEPT ![r] = Idle]
  /\ resp' = Resp("view", Some(reqs[r].id), 200, reqs[r].row)
  /\ viewed' = [viewed EXCEPT ![reqs[r].id] = @ + 1]
  /\ UNCHANGED <<now, sessions, foreign, signLog, mails, faults, served, input, admin_users>>

---------------------------------------------------------------------------
(* ProposalPage.jsx: what the page shows of the proposal it fetched *)

Tiers == {"professional", "regional", "enterprise"}

\* TIER_TRAINEES[proposal.tier] || 0
TIER_TRAINEES(tier) ==
  IF tier = "professional" THEN 3 ELSE IF tier = "regional" THEN 10
  ELSE IF tier = "enterprise" THEN 25 ELSE 0

\* TIER_KITS[proposal.tier] || 0
TIER_KITS(tier) ==
  IF tier = "professional" THEN 1 ELSE IF tier = "regional" THEN 2
  ELSE IF tier = "enterprise" THEN 4 ELSE 0

\* the Trainees and Recon Kits rows of summaryRows
summaryRows(proposal) ==
  IF Flag(proposal.let_client_choose) \/ IsNull(proposal.tier) THEN NoTotals
  ELSE [ trainees |-> Some(TIER_TRAINEES(Val(proposal.tier)) + OrZero(proposal.extra_trainees)),
         kits     |-> Some(TIER_KITS(Val(proposal.tier)) + OrZero(proposal.extra_kits)) ]

---------------------------------------------------------------------------
(* POST /api/proposals/:id/sign *)

MaxSigLen == 500000

\* signature names and signature images (an image is modelled by its length)
SigNames == {Null, Some(EmptyStr), Some(Str("<")), Some(Str("J"))}
SigDatas == {Null, Some(0), Some(MaxSigLen), Some(MaxSigLen + 1)}

\* mutant: the validation without the size limit
SignInvalidNoSizeLimit(name, data) ==
  \/ IsNull(name) \/ Val(name) = EmptyStr
  \/ IsNull(data) \/ Val(data) = 0

\* !signatureName || !signatureData, then signatureData.length > 500000
SignInvalid(name, data) ==
  \/ ~Truthy(name)
  \/ IsNull(data) \/ Val(data) = 0
  \/ Val(data) > MaxSigLen

SignsIssued(id) ==
  signLog[id].ok + signLog[id].conflict + signLog[id].notfound + signLog[id].error
    + Cardinality({r \in Slots : reqs[r].op = "sign" /\ reqs[r].id = id})

\* validation and the conditional UPDATE ... RETURNING *
SignStart(id, name, data) ==
  /\ Flushed
  /\ UNCHANGED <<now, sessions, foreign, mails, faults, viewed, input, admin_users>>
  /\ IF SignInvalid(name, data)
     THEN /\ resp' = Resp("sign", Some(id), 400, Null)
          /\ UNCHANGED <<proposals, reqs, signLog, served>>
     ELSE /\ SignsIssued(id) < MaxSigns
          /\ proposals' = SignUpdate(proposals, id, stripHtml(Val(name)), Val(data), now)
          /\ Admit
          /\ reqs' = [reqs EXCEPT ![FreeSlot] =
                        [op |-> "sign", id |-> id,
                         pc |-> IF SignMatches(proposals, id) THEN "notify" ELSE "check",
                         found |-> Exists(proposals, id)]]
          /\ resp' = NoResp
          /\ UNCHANGED signLog

\* the response of a Sign request enters the log when its UPDATE ran on an existing row
Logged(r, log) == IF reqs[r].found THEN log ELSE signLog

\* updated.length === 0: SELECT id, status; 404 or 409
SignCheck(r) ==
  LET id == reqs[r].id
      check == SelectById(proposals, id) IN
  /\ Flushed
  /\ reqs[r].op = "sign" /\ reqs[r].pc = "check"
  /\ reqs' = [reqs EXCEPT ![r] = Idle]
  /\ UNCHANGED <<proposals, now, sessions, foreign, mails, faults, served, viewed, input, admin_users>>
  /\ IF Len(check) = 0
     THEN /\ resp' = Resp("sign", Some(id), 404, Null)
          /\ signLog' = Logged(r, [signLog EXCEPT ![id].notfound = @ + 1])
     ELSE /\ resp' = Resp("sign", Some(id), 409, Null)
          /\ signLog' = Logged(r, [signLog EXCEPT ![id].conflict = @ + 1])

\* await sgMail.send({ subject: `SIGNED: ...` }); res.json({ success: true })
SignNotify(r, outcome) ==
  LET id == reqs[r].id IN
  /\ Flushed
  /\ Outbound(outcome)
  /\ reqs[r].op = "sign" /\ reqs[r].pc = "notify"
  /\ reqs' = [reqs EXCEPT ![r] = Idle]
  /\ UNCHANGED <<proposals, now, sessions, foreign, served, viewed, input, admin_users>>
  /\ IF outcome = "sent"
     THEN /\ mails' = [mails EXCEPT ![id].signed = @ + 1]
          /\ resp' = Resp("sign", Some(id), 200, Null)
          /\ signLog' = Logged(r, [signLog EXCEPT ![id].ok = @ + 1])
     ELSE /\ resp' = Resp("sign", Some(id), 500, Null)
          /\ signLog' = Logged(r, [signLog EXCEPT ![id].error = @ + 1])
          /\ UNCHANGED mails

---------------------------------------------------------------------------
(* POST /api/proposals/:id/checkout *)

\* mutant: only a missing price is refused
PriceInvalidAbsentOnly(price) == IsNull(price)

\* !proposal.total_price || Number(proposal.total_price) <= 0
PriceInvalid(price) == IsNull(price) \/ Val(price) <= 0

\* the prices up to 1010 thousandths that end in half a cent and whose
\* double, multiplied by 100, falls below the half: 1.005 * 100 is 100.49999999999999
HalfBelow == {145, 285, 565, 575, 1005}

\* mutant: the cents are cut off, not rounded
UnitAmountTruncated(price) == Val(price) \div 10

\* Math.round(Number(proposal.total_price) * 100), the price being in thousandths
UnitAmount(price) ==
  IF Val(price) \in HalfBelow THEN Val(price) \div 10 ELSE (Val(price) + 5) \div 10

\* mutant: the handler without the status !== 'signed' guard
CheckoutRefusalNoStatusGuard(proposal) ==
  IF proposal.payment_status = "paid" THEN Resp("checkout", Some(proposal.id), 409, "paid")
  ELSE IF PriceInvalid(proposal.total_price) THEN Resp("checkout", Some(proposal.id), 400, "noprice")
  ELSE NoResp

\* mutant: the handler without the payment_status === 'paid' guard
CheckoutRefusalNoPaidGuard(proposal) ==
  IF proposal.status # "signed" THEN Resp("checkout", Some(proposal.id), 400, "unsigned")
  ELSE IF PriceInvalid(proposal.total_price) THEN Resp("checkout", Some(proposal.id), 400, "noprice")
  ELSE NoResp

\* the guards of the handler on the row it read; NoResp when all pass
CheckoutRefusal(proposal) ==
  IF proposal.status # "signed" THEN Resp("checkout", Some(proposal.id), 400, "unsigned")
  ELSE IF proposal.payment_status = "paid" THEN Resp("checkout", Some(proposal.id), 409, "paid")
  ELSE IF PriceInvalid(proposal.total_price) THEN Resp("checkout", Some(proposal.id), 400, "noprice")
  ELSE NoResp

\* SELECT, then the status, payment and price guards
CheckoutStart(id) ==
  LET rows == SelectById(proposals, id) IN
  /\ Flushed
  /\ UNCHANGED <<proposals, now, sessions, foreign, signLog, mails, faults, viewed, input, admin_users>>
  /\ IF Len(rows) = 0
     THEN /\ resp' = Resp("checkout", Some(id), 404, "notfound")
          /\ UNCHANGED <<reqs, served>>
     ELSE IF CheckoutRefusal(rows[1]) # NoResp
     THEN /\ resp' = CheckoutRefusal(rows[1])
          /\ UNCHANGED <<reqs, served>>
     ELSE /\ Admit
          /\ reqs' = [reqs EXCEPT ![FreeSlot] =
                        [op |-> "checkout", pc |-> "gateway", id |-> id, proposal |-> rows[1]]]
          /\ resp' = NoResp

\* the session Stripe creates: metadata: { proposal_id: proposal.id }
NewSession(proposal) ==
  [pid |-> proposal.id, amount |-> UnitAmount(proposal.total_price),
   status |-> "open", delivered |-> 0]

\* mutant: the handler stores the id of the session it created
CheckoutGatewayRecording(r, outcome) ==
  /\ Flushed
  /\ Outbound(outcome)
  /\ reqs[r].op = "checkout" /\ reqs[r].pc = "gateway"
  /\ reqs' = [reqs EXCEPT ![r] = Idle]
  /\ UNCHANGED <<now, foreign, signLog, mails, served, viewed, input, admin_users>>
  /\ IF outcome = "created"
     THEN /\ Len(sessions) < MaxSessions
          /\ sessions' = Append(sessions, NewSession(reqs[r].proposal))
          /\ proposals' = [proposals EXCEPT ![reqs[r].id].stripe_session_id = Some(Len(sessions) + 1)]
          /\ resp' = Resp("checkout", Some(reqs[r].id), 200, "url")
     ELSE /\ resp' = Resp("checkout", Some(reqs[r].id), 500, "gateway")
          /\ UNCHANGED <<sessions, proposals>>

\* await stripe.checkout.sessions.create({...}); res.json({ checkoutUrl })
CheckoutGateway(r, outcome) ==
  /\ Flushed
  /\ Outbound(outcome)
  /\ reqs[r].op = "checkout" /\ reqs[r].pc = "gateway"
  /\ reqs' = [reqs EXCEPT ![r] = Idle]
  /\ UNCHANGED <<proposals, now, foreign, signLog, mails, served, viewed, input, admin_users>>
  /\ IF outcome = "created"
     THEN /\ Len(sessions) < MaxSessions
          /\ sessions' = Append(sessions, NewSession(reqs[r].proposal))
          /\ resp' = Resp("checkout", Some(reqs[r].id), 200, "url")
     ELSE /\ resp' = Resp("checkout", Some(reqs[r].id), 500, "gateway")
          /\ UNCHANGED sessions

\* the customer pays on the hosted page of an open session
CustomerPays(s) ==
  /\ Flushed
  /\ s \in 1..Len(sessions)
  /\ sessions[s].status = "open"
  /\ sessions' = [sessions EXCEPT ![s].status = "complete"]
  /\ resp' = NoResp
  /\ UNCHANGED <<proposals, now, reqs, foreign, signLog, mails, faults, served, viewed, input, admin_users>>

---------------------------------------------------------------------------
(* POST /api/stripe-webhook *)

Completed == "checkout.session.completed"
EventTypes == {Completed, "checkout.session.expired"}

Event(type, sid, pid) == [type |-> type, sid |-> sid, pid |-> pid]

\* event.type === 'checkout.session.completed' and session.metadata?.proposal_id is truthy
EventApplies(ev) == ev.type = Completed /\ ~IsNull(ev.pid)

\* a verified event: the unguarded UPDATE, or the bare acknowledgement
HandleEvent(ev) ==
  /\ Flushed
  /\ UNCHANGED <<now, signLog, mails, faults, viewed, input, admin_users>>
  /\ IF EventApplies(ev)
     THEN /\ proposals' = PaidUpdate(proposals, Val(ev.pid), ev.sid)
          /\ Admit
          /\ reqs' = [reqs EXCEPT ![FreeSlot] =
                        [op |-> "webhook", pc |-> "select", id |-> Val(ev.pid), sid |-> ev.sid]]
          /\ resp' = NoResp
     ELSE /\ resp' = Resp("webhook", ev.pid, 200, ev.sid)
          /\ UNCHANGED <<proposals, reqs, served>>

\* mutant: the payload is applied although its signature failed
WebhookUnverifiedApplied ==
  /\ Flushed
  /\ \E id \in Ids : proposals' = PaidUpdate(proposals, id, ForeignSid)
  /\ resp' = Resp("webhook", Null, 400, Null)
  /\ UNCHANGED <<now, reqs, sessions, foreign, signLog, mails, faults, served, viewed, input, admin_users>>

\* stripe.webhooks.constructEvent throws: 400
WebhookRejected ==
  /\ Flushed
  /\ resp' = Resp("webhook", Null, 400, Null)
  /\ UNCHANGED <<proposals, now, reqs, sessions, foreign, signLog, mails, faults, served, viewed, input, admin_users>>

\* Stripe delivers an event of a session this server created
WebhookDeliver(s, type) ==
  /\ s \in 1..Len(sessions)
  /\ type = Completed => sessions[s].status = "complete" /\ sessions[s].delivered < MaxDeliveries
  /\ sessions' = [sessions EXCEPT ![s].delivered = IF type = Completed THEN @ + 1 ELSE @]
  /\ HandleEvent(Event(type, s, Some(sessions[s].pid)))
  /\ UNCHANGED foreign

\* a verified event that no session of this server produced
WebhookForeign(pid, type) ==
  /\ foreign < MaxForeign
  /\ foreign' = foreign + 1
  /\ HandleEvent(Event(type, ForeignSid, pid))
  /\ UNCHANGED sessions

\* mutant: the notification is sent whatever the SELECT returned
RowFoundAlways(rows) == TRUE

\* rows.length > 0
RowFound(rows) == Len(rows) > 0

\* SELECT * FROM proposals WHERE id = $1; nothing to notify when there is no row
WebhookSelect(r) ==
  LET rows == SelectById(proposals, reqs[r].id) IN
  /\ Flushed
  /\ reqs[r].op = "webhook" /\ reqs[r].pc = "select"
  /\ UNCHANGED <<proposals, now, sessions, foreign, signLog, mails, faults, served, viewed, input, admin_users>>
  /\ IF ~RowFound(rows)
     THEN /\ reqs' = [reqs EXCEPT ![r] = Idle]
          /\ resp' = Resp("webhook", Some(reqs[r].id), 200, reqs[r].sid)
     ELSE /\ reqs' = [reqs EXCEPT ![r].pc = "notify"]
          /\ resp' = NoResp

\* await sgMail.send({ subject: `PAID: ...` }); res.json({ received: true })
WebhookNotify(r, outcome) ==
  /\ Flushed
  /\ Outbound(outcome)
  /\ reqs[r].op = "webhook" /\ reqs[r].pc = "notify"
  /\ reqs' = [reqs EXCEPT ![r] = Idle]
  /\ UNCHANGED <<proposals, now, sessions, foreign, signLog, served, viewed, input, admin_users>>
  /\ IF outcome = "sent"
     THEN /\ mails' = [mails EXCEPT ![reqs[r].id].paid = @ + 1]
          /\ resp' = Resp("webhook", Some(reqs[r].id), 200, reqs[r].sid)
     ELSE /\ resp' = Resp("webhook", Some(reqs[r].id), 500, reqs[r].sid)
          /\ UNCHANGED mails

---------------------------------------------------------------------------
(* GET /api/proposals/:id/payment-status *)

PaymentStatus(id) ==
  LET rows == SelectById(proposals, id) IN
  /\ Flushed
  /\ resp' = IF Len(rows) = 0
             THEN Resp("status", Some(id), 404, Null)
             ELSE Resp("status", Some(id), 200, rows[1].payment_status)
  /\ UNCHANGED <<proposals, now, reqs, sessions, foreign, signLog, mails, faults, served, viewed, input, admin_users>>

---------------------------------------------------------------------------
(* requireAdmin *)

\* process.env.JWT_SECRET and process.env.ADMIN_API_KEY: set or not
Envs == [jwtSecret : BOOLEAN, apiKey : BOOLEAN]

\* an Authorization header: its scheme and what follows it.  "jwt" is a token that
\* jwt.verify accepts under the configured secret, "stale" one it rejects, "key"
\* the value ADMIN_API_KEY is given when it is set, "keylen" a string of as many
\* characters as that value, one of them outside ASCII, "junk" anything else
Header(scheme, cred) == [scheme |-> scheme, cred |-> cred]
AuthHeaders ==
  {Null} \cup {Some(Header(sc, c)) :
                 sc \in {"Bearer", "Basic"}, c \in {"jwt", "stale", "key", "keylen", "junk"}}

\* crypto.timingSafeEqual(Buffer.from(auth), Buffer.from(expected)) throws: the two
\* strings have the same length and their UTF-8 encodings have not
requireAdminThrows(auth, env) ==
  /\ ~IsNull(auth)
  /\ ~(Val(auth).scheme = "Bearer" /\ env.jwtSecret /\ Val(auth).cred = "jwt")
  /\ env.apiKey
  /\ Val(auth).scheme = "Bearer" /\ Val(auth).cred = "keylen"

\* an exception thrown in a middleware: Express answers 500, the handler does not run
Uncaught(op) ==
  /\ Flushed
  /\ resp' = Resp(op, Null, 500, Null)
  /\ UNCHANGED <<proposals, now, reqs, sessions, foreign, signLog, mails, faults, served, viewed, input, admin_users>>

\* next() is called: a Bearer token that verifies, or the header equal to `Bearer ${ADMIN_API_KEY}`
requireAdmin(auth, env) ==
  IF IsNull(auth) THEN FALSE
  ELSE IF Val(auth).scheme = "Bearer" /\ env.jwtSecret /\ Val(auth).cred = "jwt" THEN TRUE
  ELSE IF env.apiKey /\ Val(auth).scheme = "Bearer" /\ Val(auth).cred = "key" THEN TRUE
  ELSE FALSE

---------------------------------------------------------------------------
(* GET /api/proposals *)

DefaultLimit == 50
MaxLimit == 200

Digits == <<"0", "1", "2", "3", "4", "5", "6", "7", "8", "9">>
IsDigit(c) == \E d \in 1..10 : Digits[d] = c
DigitValue(c) == (CHOOSE d \in 1..10 : Digits[d] = c) - 1

RECURSIVE SkipSpaces(_)
SkipSpaces(s) == IF s # <<>> /\ Head(s) = " " THEN SkipSpaces(Tail(s)) ELSE s

\* the digits a string starts with
RECURSIVE LeadingDigits(_)
LeadingDigits(s) ==
  IF s # <<>> /\ IsDigit(Head(s)) THEN <<Head(s)>> \o LeadingDigits(Tail(s)) ELSE <<>>

RECURSIVE DecimalValue(_)
DecimalValue(ds) ==
  IF ds = <<>> THEN 0
  ELSE 10 * DecimalValue(SubSeq(ds, 1, Len(ds) - 1)) + DigitValue(ds[Len(ds)])

\* parseInt(q): leading blanks, a sign, then digits up to the first other character;
\* NaN (Null here) when there is no digit, and for undefined
parseInt(q) ==
  IF IsNull(q) THEN Null
  ELSE LET t == SkipSpaces(Val(q))
           neg == t # <<>> /\ Head(t) = "-"
           u == IF t # <<>> /\ Head(t) \in {"-", "+"} THEN Tail(t) ELSE t
           ds == LeadingDigits(u)
       IN  IF ds = <<>> THEN Null
           ELSE Some(IF neg THEN 0 - DecimalValue(ds) ELSE DecimalValue(ds))

\* n || d for a number n: d when n is NaN or 0
OrElse(n, d) == IF IsNull(n) \/ Val(n) = 0 THEN d ELSE Val(n)

Max(a, b) == IF a >= b THEN a ELSE b
Min(a, b) == IF a <= b THEN a ELSE b

\* mutant: the limit without the upper clamp
ListLimitUnclamped(q) == Max(OrElse(parseInt(q), DefaultLimit), 1)

\* Math.min(Math.max(parseInt(req.query.limit) || 50, 1), 200)
ListLimit(q) == Min(Max(OrElse(parseInt(q), DefaultLimit), 1), MaxLimit)

\* Math.max(parseInt(req.query.offset) || 0, 0)
ListOffset(q) == Max(OrElse(parseInt(q), 0), 0)

StoredIds(tbl) == {i \in DOMAIN tbl : Exists(tbl, i)}

\* ORDER BY created_at DESC: the stored ids in an order of non-increasing
\* created_at; rows created at the same time come in either order
Orderings(tbl) ==
  {o \in [1..Cardinality(StoredIds(tbl)) -> StoredIds(tbl)] :
     /\ \A i, j \in DOMAIN o : i # j => o[i] # o[j]
     /\ \A i, j \in DOMAIN o : i < j => tbl[o[i]].created_at >= tbl[o[j]].created_at}

\* the columns of the SELECT
Summary(row) ==
  [ id |-> row.id, contact_name |-> row.contact_name, company |-> row.company,
    email |-> row.email, tier |-> row.tier, total_price |-> row.total_price, status |-> row.status,
    payment_status |-> row.payment_status, created_at |-> row.created_at,
    opened_at |-> row.opened_at, open_count |-> row.open_count, signed_at |-> row.signed_at ]

\* LIMIT $1 OFFSET $2
Page(tbl, o, limit, offset) ==
  [k \in 1..Max(0, Min(limit, Len(o) - offset)) |-> Summary(tbl[o[offset + k]])]

\* requireAdmin, then the page and SELECT COUNT(*), sent together
List(authed, limitParam, offsetParam) ==
  LET limit == ListLimit(limitParam)
      offset == ListOffset(offsetParam) IN
  /\ Flushed
  /\ UNCHANGED <<proposals, now, reqs, sessions, foreign, signLog, mails, faults, served, viewed, input, admin_users>>
  /\ IF ~authed
     THEN resp' = Resp("list", Null, 401, Null)
     ELSE \E o \in Orderings(proposals) :
            resp' = Resp("list", Null, 200,
                         [ proposals |-> Page(proposals, o, limit, offset),
                           total |-> Cardinality(StoredIds(proposals)),
                           limit |-> limit, offset |-> offset ])

---------------------------------------------------------------------------
(* The system: every handler step, the customer, Stripe's deliveries, time *)

Next ==
  \/ Tick
  \/ Flush
  \/ \E authed \in BOOLEAN, body \in CreateBodies, id \in Ids : CreateStart(authed, body, id)
  \/ \E r \in Slots, o \in MailOutcomes : CreateClientMail(r, o)
  \/ \E r \in Slots, o \in MailOutcomes : CreateInternalMail(r, o)
  \/ \E id \in Ids, track \in BOOLEAN : ViewStart(id, track)
  \/ \E r \in Slots : ViewTrack(r)
  \/ \E id \in Ids, name \in SigNames, data \in SigDatas : SignStart(id, name, data)
  \/ \E r \in Slots : SignCheck(r)
  \/ \E r \in Slots, o \in MailOutcomes : SignNotify(r, o)
  \/ \E id \in Ids : CheckoutStart(id)
  \/ \E r \in Slots, o \in GatewayOutcomes : CheckoutGateway(r, o)
  \/ \E s \in 1..MaxSessions : CustomerPays(s)
  \/ WebhookRejected
  \/ \E s \in 1..MaxSessions, type \in EventTypes : WebhookDeliver(s, type)
  \/ \E r \in Slots : WebhookSelect(r)
  \/ \E r \in Slots, o \in MailOutcomes : WebhookNotify(r, o)
  \/ \E id \in Ids : PaymentStatus(id)

NextAny ==
  \/ Next
  \/ \E pid \in {Null} \cup {Some(i) : i \in Ids \cup {UnknownId}}, type \in EventTypes :
       WebhookForeign(pid, type)

\* the verified events are those of the sessions this server created
Spec == Init /\ [][Next]_vars

\* every verified event may arrive, whatever its origin
SpecAny == Init /\ [][NextAny]_vars

---------------------------------------------------------------------------
(* One request examined at a time: a run starts from a table the handlers  *)
(* can have produced, holds one request in input and serves it, as often   *)
(* as the bounds allow.  The notifications and the Sign log count from the *)
(* start of the run.                                                       *)

MaxPolls == 10          \* turns of the page's polling loop
MaxOthers == 2          \* proposals stored besides the one the request names
MaxProbePrice == 1010   \* highest price examined, in thousandths of a dollar

\* the id the first Create of a run is given
ProbeId == CHOOSE i \in Ids : \A j \in Ids : i <= j
OtherIds == (UnknownId + 1)..(UnknownId + MaxOthers)

CreateBodyFull(name, name2, company, company2, email, email2, price) ==
  [ CreateBody(name, company, email, price) EXCEPT
      !.contact_name = name2, !.company_name = company2, !.contact_email = email2 ]

\* the row the handlers store for a well-formed Create
ProbeRow(id, price, t) ==
  NewRow(id, Sanitize(Normalize(CreateBody(Some(Str("J")), Some(Str("A")), Some(GoodEmail), price))), t)

Blank == [i \in Ids \cup OtherIds |-> NoRow]

\* two other proposals, the second one signed; created at the same time when t = 1
Others(t) ==
  LET o1 == UnknownId + 1
      o2 == UnknownId + MaxOthers
  IN  SignUpdate(Insert(Insert(Blank, ProbeRow(o1, Some(5000), 1)), ProbeRow(o2, Null, t)),
                 o2, Str("J"), 1, t)

Bases == {Blank, Others(1), Others(MaxTime)}

\* the examined proposal as Create, Sign and a verified event leave it
SentIn(tbl, price) == Insert(tbl, ProbeRow(ProbeId, price, MaxTime))
SignedIn(tbl, price) == SignUpdate(SentIn(tbl, price), ProbeId, Str("J"), 1, MaxTime)
PaidIn(tbl, price) == PaidUpdate(SignedIn(tbl, price), ProbeId, ForeignSid)

ProbePrices == {Null, Some(0 - 1)} \cup {Some(p) : p \in 0..MaxProbePrice}
FewPrices == {Null, Some(0), Some(5000)}

Lifecycles(base) ==
  {base} \cup {SentIn(base, pr) : pr \in FewPrices}
         \cup {SignedIn(base, pr) : pr \in FewPrices}
         \cup {PaidIn(base, pr) : pr \in FewPrices}

\* field values of a Create body: absent, empty, given
NameInputs == {Null, Some(EmptyStr), Some(Str("J"))}
EmailInputs ==
  {Null, Some(EmptyStr), Some(GoodEmail),
   Some(<<"a", "@", "b">>), Some(<<"a", " ", "@", "b", ".", "c">>),
   Some(<<"a", "@", "@", "b", ".", "c">>), Some(<<"@", "b", ".", "c">>),
   Some(<<"<", "a", "@", "b", ".", "c", ">">>), Some(<<"<", "@", "b", ".", "c">>)}

ProbeBodies ==
  {CreateBodyFull(n, n2, c, c2, e, e2, Some(5000)) :
     n \in NameInputs, n2 \in NameInputs, c \in NameInputs, c2 \in {Null, Some(Str("A"))},
     e \in EmailInputs, e2 \in {Null, Some(EmptyStr), Some(GoodEmail)}}

KeyOnly == [jwtSecret |-> FALSE, apiKey |-> TRUE]
KeyHeader == Some(Header("Bearer", "key"))

CreateInputs ==
  {[op |-> "create", auth |-> a, env |-> e,
    body |-> CreateBody(Some(Str("J")), Some(Str("A")), Some(GoodEmail), Some(5000))] :
     a \in AuthHeaders, e \in Envs}
  \cup {[op |-> "create", auth |-> KeyHeader, env |-> KeyOnly, body |-> b] : b \in ProbeBodies}

LimitInputs ==
  {Null, Some(EmptyStr), Some(Str("0")), Some(<<"a", "b", "c">>), Some(<<"-", "5">>),
   Some(Str("1")), Some(Str("2")), Some(<<"7", "x">>), Some(<<" ", "3">>),
   Some(<<"2", "0", "0">>), Some(<<"2", "0", "1">>), Some(<<"5", "0", "0", "0">>)}
OffsetInputs ==
  {Null, Some(Str("0")), Some(<<"-", "1">>), Some(Str("1")), Some(Str("2")),
   Some(Str("x")), Some(Str("9"))}

ListInputs ==
  {[op |-> "list", auth |-> a, env |-> e, limit |-> Null, offset |-> Null] :
     a \in AuthHeaders, e \in Envs}
  \cup {[op |-> "list", auth |-> KeyHeader, env |-> KeyOnly, limit |-> l, offset |-> o] :
          l \in LimitInputs, o \in OffsetInputs}

\* a package: the tier, the extras in both spellings, who chooses, the price in both
PackageBodies ==
  {[ CreateBody(Some(Str("J")), Some(Str("A")), Some(GoodEmail), pr) EXCEPT
       !.tier = t, !.extraTrainees = xt, !.extra_trainees = xt2,
       !.extraKits = xk, !.extra_kits = xk2,
       !.letClientChoose = lc, !.let_client_choose = lc2, !.total_price = pr2 ] :
     t \in {Null, Some("custom")} \cup {Some(tier) : tier \in Tiers},
     xt \in {Null, Some(0), Some(2)}, xt2 \in {Null, Some(1)},
     xk \in {Null, Some(0), Some(2)}, xk2 \in {Null, Some(1)},
     lc \in {Null, Some(FALSE), Some(TRUE)}, lc2 \in {Null, Some(TRUE)},
     pr \in FewPrices, pr2 \in {Null, Some(7000)}}

\* the admin sends a proposal and the client opens the page of the link
ProposeInputs ==
  {[op |-> "propose", auth |-> KeyHeader, env |-> KeyOnly, body |-> b, id |-> ProbeId] :
     b \in PackageBodies}

\* the page has come back from the payment and starts pollPayment
PollInput == [op |-> "poll", id |-> ProbeId, pc |-> "status", i |-> 0]

SignInputs ==
  {[op |-> "sign", id |-> ProbeId, name |-> n, data |-> d] : n \in SigNames, d \in SigDatas}

\* the tables and the request of a run
Probes ==
  {[table |-> t, input |-> i] : t \in {Blank, SentIn(Others(1), Some(5000))}, i \in CreateInputs}
  \cup {[table |-> t, input |-> i] :
          t \in Bases \cup {SentIn(b, Some(5000)) : b \in Bases}, i \in ListInputs}
  \cup {[table |-> t, input |-> i] : t \in Lifecycles(Others(1)), i \in SignInputs}
  \cup {[table |-> t, input |-> [op |-> "checkout", id |-> ProbeId]] :
          t \in Lifecycles(Others(1)) \cup {SignedIn(Blank, pr) : pr \in ProbePrices}}
  \cup {[table |-> t, input |-> [op |-> "status", id |-> ProbeId]] : t \in Lifecycles(Others(1))}
  \cup {[table |-> Blank, input |-> i] : i \in ProposeInputs}
  \cup {[table |-> t, input |-> PollInput] : t \in Lifecycles(Others(1))}

\* pollPayment, one turn of the loop: GET /api/proposals/:id/payment-status
PollStatus ==
  /\ input.op = "poll" /\ input.pc = "status"
  /\ PaymentStatus(input.id)

\* the answer: paid ends the polling; otherwise wait and go round again, and after
\* MaxPolls turns refetch the proposal
PollStatusAnswer ==
  /\ input.op = "poll" /\ input.pc = "status"
  /\ resp # NoResp /\ resp.op = "status"
  /\ input' = IF resp.code = 200 /\ resp.body = "paid" THEN [input EXCEPT !.pc = "done"]
              ELSE IF input.i + 1 < MaxPolls THEN [input EXCEPT !.i = @ + 1]
              ELSE [input EXCEPT !.i = @ + 1, !.pc = "refetch"]
  /\ resp' = NoResp
  /\ UNCHANGED <<proposals, now, reqs, sessions, foreign, signLog, mails, faults, served, viewed, admin_users>>

\* after the loop: fetch(`${API}/api/proposals/${id}`), with no track parameter
PollRefetch ==
  /\ input.op = "poll" /\ input.pc = "refetch"
  /\ \A r \in Slots : reqs[r] = Idle
  /\ ViewStart(input.id, TRUE)

\* the answer of the refetch: setProposal(data) when it is ok; the polling is over
PollRefetchAnswer ==
  /\ input.op = "poll" /\ input.pc = "refetch"
  /\ resp # NoResp /\ resp.op = "view"
  /\ input' = [input EXCEPT !.pc = "done"]
  /\ resp' = NoResp
  /\ UNCHANGED <<proposals, now, reqs, sessions, foreign, signLog, mails, faults, served, viewed, admin_users>>

InitRequest ==
  /\ \E probe \in Probes : proposals = probe.table /\ input = probe.input
  /\ now = MaxTime
  /\ reqs = [r \in Slots |-> Idle]
  /\ sessions = <<>>
  /\ foreign = 0
  /\ resp = NoResp
  /\ signLog = [i \in Ids |-> NoSigns]
  /\ viewed = [i \in Ids |-> 0]
  /\ mails = [i \in Ids |-> NoMails]
  /\ faults = 0
  /\ served = 0
  /\ admin_users = <<>>

NextRequest ==
  \/ /\ input.op # "poll"
     /\ Flush
  \/ /\ input.op \in {"create", "list"}
     /\ requireAdminThrows(input.auth, input.env)
     /\ Uncaught(input.op)
  \/ /\ input.op \in {"create", "propose"}
     /\ ~requireAdminThrows(input.auth, input.env)
     /\ \E id \in Ids : CreateStart(requireAdmin(input.auth, input.env), input.body, id)
  \/ \E r \in Slots, o \in MailOutcomes : CreateClientMail(r, o)
  \/ \E r \in Slots, o \in MailOutcomes : CreateInternalMail(r, o)
  \/ /\ input.op = "list"
     /\ ~requireAdminThrows(input.auth, input.env)
     /\ List(requireAdmin(input.auth, input.env), input.limit, input.offset)
  \/ /\ input.op = "sign"
     /\ SignStart(input.id, input.name, input.data)
  \/ \E r \in Slots : SignCheck(r)
  \/ \E r \in Slots, o \in MailOutcomes : SignNotify(r, o)
  \/ /\ input.op = "checkout"
     /\ CheckoutStart(input.id)
  \/ \E r \in Slots, o \in GatewayOutcomes : CheckoutGateway(r, o)
  \/ /\ input.op = "status"
     /\ PaymentStatus(input.id)
  \/ /\ input.op = "propose"
     /\ ViewStart(input.id, TRUE)
  \/ \E r \in Slots : ViewTrack(r)
  \/ PollStatus
  \/ PollStatusAnswer
  \/ PollRefetch
  \/ PollRefetchAnswer

\* one request served, again and again, on a table drawn at the start
SpecRequest == InitRequest /\ [][NextRequest]_vars

---------------------------------------------------------------------------
(* POST /api/admin/setup *)

MinPasswordLen == 10

\* email.toLowerCase() on the letters the examined addresses have
toLowerCase(s) == [i \in 1..Len(s) |-> IF s[i] = "A" THEN "a" ELSE s[i]]

\* addresses sent to the endpoint: absent, malformed, two that differ in case only, another
SetupEmails ==
  {Null, Some(<<"a", "@", "b">>), Some(GoodEmail),
   Some(<<"A", "@", "b", ".", "c">>), Some(<<"d", "@", "b", ".", "c">>)}

\* passwords, by their length
SetupPasswords == {Null, Some(0), Some(MinPasswordLen - 1), Some(MinPasswordLen)}

\* !email || !password, !isValidEmail(email), password.length < 10
SetupInvalid(email, password) ==
  \/ ~Truthy(email)
  \/ IsNull(password) \/ Val(password) = 0
  \/ ~isValidEmail(Val(email))
  \/ Val(password) < MinPasswordLen

\* SELECT COUNT(*)::int AS count FROM admin_users; rows[0].count > 0
AdminConfigured(tbl) == Len(tbl) > 0

\* email TEXT UNIQUE
EmailTaken(tbl, email) == \E k \in 1..Len(tbl) : tbl[k].email = email

\* the COUNT query, the validation, and bcrypt.hash begun
SetupStart(email, password) ==
  /\ Flushed
  /\ input.op = "setup"
  /\ UNCHANGED <<proposals, now, sessions, foreign, signLog, mails, faults, viewed, input, admin_users>>
  /\ IF AdminConfigured(admin_users)
     THEN /\ resp' = Resp("setup", Null, 403, Null)
          /\ UNCHANGED <<reqs, served>>
     ELSE IF SetupInvalid(email, password)
     THEN /\ resp' = Resp("setup", Null, 400, Null)
          /\ UNCHANGED <<reqs, served>>
     ELSE /\ Admit
          /\ reqs' = [reqs EXCEPT ![FreeSlot] =
                        [op |-> "setup", pc |-> "hash", email |-> toLowerCase(Val(email))]]
          /\ resp' = NoResp

\* await bcrypt.hash(password, 12) resolves and the INSERT is sent
SetupHash(r) ==
  /\ Flushed
  /\ reqs[r].op = "setup" /\ reqs[r].pc = "hash"
  /\ reqs' = [reqs EXCEPT ![r].pc = "insert"]
  /\ resp' = NoResp
  /\ UNCHANGED <<proposals, now, sessions, foreign, signLog, mails, faults, served, viewed, input, admin_users>>

\* INSERT INTO admin_users ... RETURNING id, email; then the token,
\* or 500 when JWT_SECRET is not set; a taken email fails the INSERT
SetupInsert(r) ==
  /\ Flushed
  /\ reqs[r].op = "setup" /\ reqs[r].pc = "insert"
  /\ reqs' = [reqs EXCEPT ![r] = Idle]
  /\ UNCHANGED <<proposals, now, sessions, foreign, signLog, mails, faults, served, viewed, input>>
  /\ IF EmailTaken(admin_users, reqs[r].email)
     THEN /\ resp' = Resp("setup", Null, 500, Null)
          /\ UNCHANGED admin_users
     ELSE /\ admin_users' = Append(admin_users, [id |-> Len(admin_users) + 1, email |-> reqs[r].email])
          /\ resp' = Resp("setup", Null, IF input.jwtSecret THEN 200 ELSE 500, Null)

\* the server starts with no admin; JWT_SECRET is set or not
InitSetup ==
  /\ proposals = [i \in Ids |-> NoRow]
  /\ now = 1
  /\ reqs = [r \in Slots |-> Idle]
  /\ sessions = <<>>
  /\ foreign = 0
  /\ resp = NoResp
  /\ signLog = [i \in Ids |-> NoSigns]
  /\ viewed = [i \in Ids |-> 0]
  /\ mails = [i \in Ids |-> NoMails]
  /\ faults = 0
  /\ served = 0
  /\ input \in {[op |-> "setup", jwtSecret |-> s] : s \in BOOLEAN}
  /\ admin_users = <<>>

NextSetup ==
  \/ Flush
  \/ \E email \in SetupEmails, password \in SetupPasswords : SetupStart(email, password)
  \/ \E r \in Slots : SetupHash(r)
  \/ \E r \in Slots : SetupInsert(r)

\* setup requests in any interleaving
SpecSetup == InitSetup /\ [][NextSetup]_vars

---------------------------------------------------------------------------
(* Observations the properties are stated on *)

Row(id) == proposals[id]
Signed(id) == Exists(proposals, id) /\ Row(id).status = "signed"
Paid(id) == Exists(proposals, id) /\ Row(id).payment_status = "paid"

SignsInFlight(id) == {r \in Slots : reqs[r].op = "sign" /\ reqs[r].id = id}
SignsLogged(id) ==
  signLog[id].ok + signLog[id].conflict + signLog[id].notfound + signLog[id].error

\* this step is the UPDATE of a verified completion event for id carrying session sid
EventApplied(id, sid) ==
  \E r \in Slots :
    /\ reqs[r] = Idle
    /\ reqs'[r] # Idle
    /\ reqs'[r].op = "webhook" /\ reqs'[r].id = id /\ reqs'[r].sid = sid

SessionIds == 1..(MaxSessions + 1)

\* this step is the call of stripe.checkout.sessions.create for id
GatewayCalled(id) ==
  \E r \in Slots :
    /\ reqs[r].op = "checkout" /\ reqs[r].pc = "gateway" /\ reqs[r].id = id
    /\ reqs'[r] = Idle

\* this step handles a verified event of other origin without starting a handler:
\* its correlation id is missing, or it is not a completion event
EventPassedOver == foreign' # foreign /\ reqs' = reqs

\* this step is the SELECT that follows the UPDATE of a verified event for id
EventReread(id) ==
  \E r \in Slots :
    /\ reqs[r].op = "webhook" /\ reqs[r].pc = "select" /\ reqs[r].id = id
    /\ reqs'[r] # reqs[r]

\* no handler of a verified event for id goes on to the notification
NoneToNotify(id) ==
  \A r \in Slots : ~(reqs'[r].op = "webhook" /\ reqs'[r].id = id /\ reqs'[r].pc = "notify")

\* this step answers a webhook request whose signature did not verify
SignatureRefused == resp' = Resp("webhook", Null, 400, Null)

\* this step is the sgMail.send that follows the UPDATE of a Sign or of a verified event
NotifyAttempted(r) ==
  /\ reqs[r].op \in {"sign", "webhook"}
  /\ reqs[r].pc = "notify"
  /\ reqs'[r] = Idle

\* this step is a sgMail.send of the Create that inserted id
CreateMailing(id) ==
  \E r \in Slots :
    /\ reqs[r].op = "create" /\ reqs[r].id = id
    /\ reqs'[r] # reqs[r]

\* this step is the start of a Create: answered at once, or gone on to the mails
CreateAsked ==
  \/ /\ reqs' = reqs
     /\ resp' # NoResp
     /\ resp'.op = "create"
  \/ \E r \in Slots :
       /\ reqs[r] = Idle
       /\ reqs'[r] # Idle
       /\ reqs'[r].op = "create"

\* the examined request passes requireAdmin
Admitted == requireAdmin(input.auth, input.env)

\* a field given neither as a non-empty camelCase value nor as a non-empty snake_case one
Missing(v) == IsNull(v) \/ Val(v) = EmptyStr

\* email addresses that are not well-formed: no dot after the @, a blank, two @, no local part
MalformedEmails ==
  {<<"a", "@", "b">>, <<"a", " ", "@", "b", ".", "c">>,
   <<"a", "@", "@", "b", ".", "c">>, <<"@", "b", ".", "c">>}

\* the email a body gives: the camelCase field, the snake_case one when that is absent
GivenEmail(body) == IF IsNull(body.email) THEN body.contact_email ELSE body.email

BadCreateBody(body) ==
  \/ Missing(body.email) /\ Missing(body.contact_email)
  \/ Missing(body.contactName) /\ Missing(body.contact_name)
  \/ Missing(body.company) /\ Missing(body.company_name)
  \/ ~IsNull(GivenEmail(body)) /\ Val(GivenEmail(body)) \in MalformedEmails

\* this step stores a row under id, which had none
Inserted(id) == ~Exists(proposals, id) /\ Exists(proposals', id)

\* this step is the start of a Create for which generateId returned id
CreateDrew(id) ==
  \/ /\ reqs' = reqs
     /\ resp' # NoResp
     /\ resp'.op = "create" /\ resp'.id = Some(id)
  \/ \E r \in Slots :
       /\ reqs[r] = Idle
       /\ reqs'[r] # Idle
       /\ reqs'[r].op = "create" /\ reqs'[r].id = id

\* no two stored rows carry the same id
UniqueIds(tbl) ==
  \A i, j \in DOMAIN tbl :
    (Exists(tbl, i) /\ Exists(tbl, j) /\ tbl[i].id = tbl[j].id) => i = j

\* the row of id is the one that was inserted: same id, same creation
SameRecord(id) ==
  /\ Exists(proposals', id)
  /\ Row(id)'.id = Row(id).id
  /\ Row(id)'.created_at = Row(id).created_at
  /\ Row(id)'.contact_name = Row(id).contact_name
  /\ Row(id)'.company = Row(id).company
  /\ Row(id)'.email = Row(id).email
  /\ Row(id)'.total_price = Row(id).total_price

\* this step is the start of a Sign of id: answered at once, or gone on past the UPDATE
SignAsked(id) ==
  \/ /\ reqs' = reqs
     /\ resp' # NoResp
     /\ resp'.op = "sign" /\ resp'.id = Some(id)
  \/ \E r \in Slots :
       /\ reqs[r] = Idle
       /\ reqs'[r] # Idle
       /\ reqs'[r].op = "sign" /\ reqs'[r].id = id

\* a signature whose name or image is missing or empty, or whose image is too long
BadSignature(name, data) ==
  \/ Missing(name)
  \/ IsNull(data) \/ Val(data) = 0
  \/ Val(data) > MaxSigLen

\* this step is the SELECT of a Sign of id whose UPDATE matched no row
SignReread(id) ==
  \E r \in Slots :
    /\ reqs[r].op = "sign" /\ reqs[r].pc = "check" /\ reqs[r].id = id
    /\ reqs'[r] = Idle

\* the examined List request has been answered with a page
ListAnswered == input.op = "list" /\ resp # NoResp /\ resp.op = "list" /\ resp.code = 200

\* the request carries neither a token that verifies under a configured secret
\* nor the configured API key as a Bearer credential
NoCredential(auth, env) ==
  \/ IsNull(auth)
  \/ Val(auth).cred \in {"stale", "keylen", "junk"}
  \/ Val(auth).cred = "jwt" /\ ~env.jwtSecret
  \/ Val(auth).cred = "key" /\ ~env.apiKey

\* this step is the SELECT and the guards of a checkout request for id
CheckoutAsked(id) ==
  \/ /\ reqs' = reqs
     /\ resp' # NoResp
     /\ resp'.op = "checkout" /\ resp'.id = Some(id)
  \/ \E r \in Slots :
       /\ reqs[r] = Idle
       /\ reqs'[r] # Idle
       /\ reqs'[r].op = "checkout" /\ reqs'[r].id = id

\* this step neither calls the gateway nor leaves a handler that will
NoGatewayCall == reqs' = reqs /\ sessions' = sessions

\* this step is the tracking UPDATE of a view of id
OpenTracked(id) ==
  \E r \in Slots :
    /\ reqs[r].op = "view" /\ reqs[r].pc = "track" /\ reqs[r].id = id
    /\ reqs'[r] = Idle

\* this step answers a View of id sent with ?track=false
UntrackedViewAnswered(id) ==
  \/ /\ reqs' = reqs
     /\ resp' # NoResp
     /\ resp'.op = "view" /\ resp'.id = Some(id) /\ resp'.code = 200
  \/ \E r \in Slots :
       /\ reqs[r].op = "view" /\ reqs[r].id = id /\ ~reqs[r].track
       /\ reqs'[r] = Idle

\* no tracked View of id is waiting for its UPDATE
NoViewInFlight(id) == \A r \in Slots : ~(reqs[r].op = "view" /\ reqs[r].id = id)

\* the value a body names for a field with two spellings
Named(camel, snake) == IF ~IsNull(camel) THEN camel ELSE snake

\* the number a body names, none counting as 0
NamedCount(camel, snake) == IF IsNull(Named(camel, snake)) THEN 0 ELSE Val(Named(camel, snake))

\* trainees and kits a tier includes
BaseTotals ==
  [ professional |-> [trainees |-> 3, kits |-> 1],
    regional     |-> [trainees |-> 10, kits |-> 2],
    enterprise   |-> [trainees |-> 25, kits |-> 4] ]

\* the request offers one of the three tiers and does not leave the choice to the client
PackageOffered ==
  /\ input.op = "propose"
  /\ ~IsNull(input.body.tier) /\ Val(input.body.tier) \in Tiers
  /\ Named(input.body.letClientChoose, input.body.let_client_choose) # Some(TRUE)

\* the totals the offered package comes to
PackageTotals ==
  LET base == BaseTotals[Val(input.body.tier)] IN
  [ trainees |-> Some(base.trainees + NamedCount(input.body.extraTrainees, input.body.extra_trainees)),
    kits     |-> Some(base.kits + NamedCount(input.body.extraKits, input.body.extra_kits)) ]

\* the page has fetched a proposal
PageLoaded == resp # NoResp /\ resp.op = "view" /\ resp.code = 200

\* this step changes nothing of the row but its open tracking
OnlyOpenTracking(id) ==
  Row(id)' = [Row(id) EXCEPT !.opened_at = Row(id)'.opened_at, !.open_count = Row(id)'.open_count]

\* this step changes nothing of the row but its signature and status
OnlySigning(id) ==
  Row(id)' = [Row(id) EXCEPT !.status = Row(id)'.status,
                             !.signature_name = Row(id)'.signature_name,
                             !.signature_data = Row(id)'.signature_data,
                             !.signed_at = Row(id)'.signed_at]

\* this step changes nothing of the row but its payment
OnlyPayment(id) ==
  Row(id)' = [Row(id) EXCEPT !.payment_status = Row(id)'.payment_status,
                             !.stripe_session_id = Row(id)'.stripe_session_id]

\* what Create stored of the offer is still there
OfferKept(id) ==
  /\ Row(id)'.id = Row(id).id
  /\ Row(id)'.contact_name = Row(id).contact_name
  /\ Row(id)'.company = Row(id).company
  /\ Row(id)'.email = Row(id).email
  /\ Row(id)'.tier = Row(id).tier
  /\ Row(id)'.total_price = Row(id).total_price

\* the record exists and was stored by the request under examination
StoredFromInput(id) == input.op = "propose" /\ input.id = id /\ Exists(proposals, id)

\* a value a body names, or the default of its column when it names none
NamedOr(camel, snake, default) ==
  IF IsNull(Named(camel, snake)) THEN default ELSE Named(camel, snake)

\* this step sends the answer of a Sign request that did not succeed
SignRefused ==
  /\ resp' # NoResp
  /\ resp'.op = "sign" /\ resp'.code \in {400, 404, 409}

\* this step is the UPDATE of a Sign request that goes on to answer 404 or 409
SignMissed ==
  \E r \in Slots :
    /\ reqs[r] = Idle
    /\ reqs'[r] # Idle
    /\ reqs'[r].op = "sign" /\ reqs'[r].pc = "check"

\* a Sign request past its UPDATE answers 404 or 409 exactly when the UPDATE matched no row
SignAnswerFollowsUpdate ==
  \A r \in Slots :
    (reqs[r].op = "sign" /\ reqs'[r] = Idle) =>
      (reqs[r].pc = "check" <=> resp'.code \in {404, 409})

\* the signature of a signed record stays as it is
SignatureKept(id) ==
  /\ Row(id)'.status = "signed"
  /\ Row(id)'.signature_name = Row(id).signature_name
  /\ Row(id)'.signature_data = Row(id).signature_data
  /\ Row(id)'.signed_at = Row(id).signed_at

\* Sign requests of id that are at their notification
SignsNotifying(id) ==
  {r \in Slots : reqs[r].op = "sign" /\ reqs[r].id = id /\ reqs[r].pc = "notify"}

\* 'signed' notifications of id sent, refused by the mail service, or about to be sent
SignedDispatches(id) ==
  mails[id].signed + signLog[id].error + Cardinality(SignsNotifying(id))

\* this step is the UPDATE of a Sign request that goes on to its notification
SignGoesToNotify(id) ==
  \E r \in Slots :
    /\ reqs[r] = Idle
    /\ reqs'[r] # Idle
    /\ reqs'[r].op = "sign" /\ reqs'[r].id = id /\ reqs'[r].pc = "notify"

---------------------------------------------------------------------------
(* C1: of two well-formed Sign requests on one existing proposal, answered *)
(* in any interleaving, exactly one is answered 200 and the other 409.     *)
C1_ExactlyOneSignSucceeds ==
  \A id \in Ids :
    (SignsLogged(id) = 2 /\ SignsInFlight(id) = {})
      => signLog[id].ok = 1 /\ signLog[id].conflict = 1

(* C2: status never leaves 'signed' and payment_status never leaves 'paid', *)
(* and no row disappears, whatever step is taken.                           *)
C2_NoRegress ==
  [][\A id \in Ids :
       /\ Signed(id) => Signed(id)'
       /\ Paid(id) => Paid(id)']_vars

\* a signed and paid proposal on which later requests have acted
C2_Witness ==
  \E id \in Ids :
    /\ Signed(id) /\ Paid(id)
    /\ signLog[id].conflict > 0
    /\ mails[id].paid > 0

(* C3: once a proposal is paid, the UPDATE of a later verified completion  *)
(* event leaves its whole row, stripe_session_id included, as it was.      *)
C3_FirstPaymentWins ==
  [][\A id \in Ids, sid \in SessionIds :
       (Paid(id) /\ EventApplied(id, sid)) => Row(id)' = Row(id)]_vars

(* C4: applying a verified completion event leaves the proposal paid with  *)
(* the event's session id, and applying it to a proposal that already is   *)
(* paid with that session id changes no field of any row.                  *)
C4_SameEventIdempotent ==
  [][\A id \in Ids, sid \in SessionIds :
       (Exists(proposals, id) /\ EventApplied(id, sid))
         => /\ Paid(id)' /\ Row(id)'.stripe_session_id = Some(sid)
            /\ (Paid(id) /\ Row(id).stripe_session_id = Some(sid))
                 => proposals' = proposals]_vars

\* one session's completion event has been applied twice to its proposal
C4_Witness ==
  \E s \in 1..Len(sessions) :
    /\ sessions[s].delivered = 2
    /\ Paid(sessions[s].pid)
    /\ Row(sessions[s].pid).stripe_session_id = Some(s)
    /\ \A r \in Slots : reqs[r] = Idle

(* C5: for each proposal the 'paid' notification is handed to the mailer   *)
(* at most once.                                                           *)
C5_PaidMailAtMostOnce == \A id \in Ids : mails[id].paid <= 1

(* C6: at most one checkout session of a proposal reaches completion.      *)
C6_NoDoubleCharge ==
  \A id \in Ids :
    Cardinality({s \in 1..Len(sessions) :
                   sessions[s].pid = id /\ sessions[s].status = "complete"}) <= 1

(* C7: stripe.checkout.sessions.create is never called for a proposal      *)
(* whose stored payment_status is 'paid' at the moment of the call.        *)
C7_NoSessionWhilePaid ==
  [][\A id \in Ids : GatewayCalled(id) => ~Paid(id)]_vars

(* C8: when the verified events are those of the sessions the server       *)
(* created, a paid proposal is a signed proposal.                          *)
C8_PaidImpliesSigned == \A id \in Ids : Paid(id) => Signed(id)

\* a proposal paid through a session of its own
C8_Witness ==
  \E id \in Ids : Paid(id) /\ Row(id).stripe_session_id \in {Some(s) : s \in 1..Len(sessions)}

(* C9: signature_name, signature_data and signed_at are all null while     *)
(* status is 'sent' and all non-null once status is 'signed'.              *)
C9_SignatureFieldsTogether ==
  \A id \in Ids :
    Exists(proposals, id) =>
      /\ Row(id).status \in {"sent", "signed"}
      /\ Row(id).status = "sent" =>
           /\ IsNull(Row(id).signature_name)
           /\ IsNull(Row(id).signature_data)
           /\ IsNull(Row(id).signed_at)
      /\ Row(id).status = "signed" =>
           /\ ~IsNull(Row(id).signature_name)
           /\ ~IsNull(Row(id).signature_data)
           /\ ~IsNull(Row(id).signed_at)

\* a proposal signed with a name that sanitizing emptied
C9_Witness ==
  \E id \in Ids : Signed(id) /\ Row(id).signature_name = Some(EmptyStr)

(* C10: the first tracking update of a proposal sets opened_at, which was  *)
(* null, to the current time and open_count to 1; every later one leaves   *)
(* opened_at as it was and adds exactly 1 to open_count.                   *)
C10_TrackedViews ==
  [][\A id \in Ids :
       OpenTracked(id) =>
         /\ Row(id)'.open_count = Row(id).open_count + 1
         /\ Row(id).open_count = 0 =>
              /\ IsNull(Row(id).opened_at)
              /\ Row(id)'.opened_at = Some(now)
              /\ Row(id)'.open_count = 1
         /\ Row(id).open_count > 0 =>
              /\ ~IsNull(Row(id).opened_at)
              /\ Row(id)'.opened_at = Row(id).opened_at]_vars

\* a second tracked view, later than the first, has kept the first one's opened_at
C10_Witness ==
  \E id \in Ids :
    /\ Exists(proposals, id)
    /\ Row(id).open_count = 2
    /\ Row(id).opened_at = Some(1)
    /\ now = 2

(* C11: a View with ?track=false changes neither opened_at nor open_count, *)
(* nor any other field of any row.                                         *)
C11_UntrackedViewFrame ==
  [][\A id \in Ids : UntrackedViewAnswered(id) => proposals' = proposals]_vars

\* an untracked View has returned a row that tracked Views had opened before
C11_Witness ==
  \E id \in Ids :
    /\ Exists(proposals, id)
    /\ Row(id).open_count > 0
    /\ resp = Resp("view", Some(id), 200, Row(id))

(* C12: when n tracked Views of a proposal have been answered and none is  *)
(* waiting, the stored open_count is n, whatever Sign and webhook steps    *)
(* ran in between.                                                         *)
C12_NoLostOpen ==
  \A id \in Ids :
    (Exists(proposals, id) /\ NoViewInFlight(id)) => Row(id).open_count = viewed[id]

\* the second of two tracked Views is answered with the row it read before the
\* first one's UPDATE and before a Sign: the three requests overlapped
C12_Witness ==
  \E id \in Ids :
    /\ viewed[id] = 2
    /\ NoViewInFlight(id)
    /\ Signed(id)
    /\ resp # NoResp
    /\ resp.op = "view" /\ resp.code = 200
    /\ resp.body.open_count = 0 /\ resp.body.status = "sent"

(* C13: a tracked View answers with the row as its own increment left it:  *)
(* the returned open_count is at least 1, and the first tracked View of a  *)
(* proposal still 'sent' and 'unpaid' returns sent, unpaid, open_count 1.  *)
C13_TrackedViewReturnsIncrement ==
  [][\A id \in Ids :
       OpenTracked(id) =>
         /\ resp'.code = 200
         /\ resp'.body.open_count >= 1
         /\ (Row(id).open_count = 0 /\ ~Signed(id) /\ ~Paid(id)) =>
              /\ resp'.body.status = "sent"
              /\ resp'.body.payment_status = "unpaid"
              /\ resp'.body.open_count = 1]_vars

(* C14: a checkout request for an existing proposal whose status is not    *)
(* 'signed' is answered 400 (precondition failed) and no gateway call is   *)
(* made.                                                                   *)
C14_CheckoutBeforeSign ==
  [][\A id \in Ids :
       (CheckoutAsked(id) /\ Exists(proposals, id) /\ ~Signed(id)) =>
         /\ resp' = Resp("checkout", Some(id), 400, "unsigned")
         /\ NoGatewayCall]_vars

\* a checkout refused on a proposal that is still 'sent'
C14_Witness ==
  \E id \in Ids :
    /\ Exists(proposals, id) /\ ~Signed(id)
    /\ resp = Resp("checkout", Some(id), 400, "unsigned")
    /\ sessions = <<>>

(* C15: a checkout request for a signed, unpaid proposal whose total_price *)
(* is null or <= 0 is answered 400 (validation error) and no gateway call  *)
(* is made.                                                                *)
C15_CheckoutWithoutPrice ==
  [][\A id \in Ids :
       (/\ CheckoutAsked(id)
        /\ Signed(id) /\ ~Paid(id)
        /\ (IsNull(Row(id).total_price) \/ Val(Row(id).total_price) <= 0)) =>
         /\ resp' = Resp("checkout", Some(id), 400, "noprice")
         /\ NoGatewayCall]_vars

\* a checkout refused on a signed, unpaid proposal priced 0
C15_Witness ==
  \E id \in Ids :
    /\ Signed(id) /\ ~Paid(id)
    /\ Row(id).total_price = Some(0)
    /\ resp = Resp("checkout", Some(id), 400, "noprice")
    /\ sessions = <<>>

(* C16: a checkout request for a signed proposal whose payment_status is   *)
(* 'paid' is answered 409 (conflict), not the 400 of the other refusals,   *)
(* and no gateway call is made.                                            *)
C16_CheckoutAfterPaid ==
  [][\A id \in Ids :
       (CheckoutAsked(id) /\ Signed(id) /\ Paid(id)) =>
         /\ resp' = Resp("checkout", Some(id), 409, "paid")
         /\ resp' # Resp("checkout", Some(id), 400, "unsigned")
         /\ resp' # Resp("checkout", Some(id), 400, "noprice")
         /\ NoGatewayCall]_vars

\* a checkout refused on a proposal paid through its one session
C16_Witness ==
  \E id \in Ids :
    /\ Signed(id) /\ Paid(id)
    /\ resp = Resp("checkout", Some(id), 409, "paid")
    /\ Len(sessions) = 1

C18_UnverifiedRejected ==
  [][/\ SignatureRefused =>
          UNCHANGED <<proposals, reqs, sessions, mails, signLog, viewed>>
     /\ \A id \in Ids :
          (Exists(proposals, id) /\ Row(id)'.payment_status # Row(id).payment_status)
            => \E sid \in SessionIds : EventApplied(id, sid)]_vars

\* a request with a bad signature refused while a signed proposal awaits payment
C18_Witness ==
  /\ resp = Resp("webhook", Null, 400, Null)
  /\ \E s \in 1..Len(sessions) :
       /\ sessions[s].status = "open"
       /\ Signed(sessions[s].pid) /\ ~Paid(sessions[s].pid)

(* C19: when the UPDATE of a Sign or of a verified event has succeeded,    *)
(* the notification that follows, sent or failed, leaves the rows as they  *)
(* are and the request is answered 200.                                    *)
C19_NotifyFailureStillSuccess ==
  [][\A r \in Slots :
       NotifyAttempted(r) => resp'.code = 200 /\ proposals' = proposals]_vars

(* C20: every notification of a Create is attempted with the row already   *)
(* stored, the internal one only after the client one was sent; the step   *)
(* leaves the rows as they are, and when the send fails the request is     *)
(* answered 500.                                                           *)
C20_CreatePersistsFirst ==
  [][\A id \in Ids :
       CreateMailing(id) =>
         /\ Exists(proposals, id)
         /\ proposals' = proposals
         /\ mails'[id].internal > mails[id].internal => mails[id].client > 0
         /\ mails' = mails => resp' = Resp("create", Some(id), 500, Null)]_vars

\* a Create answered 500 because the internal notification failed; its row is stored
C20_Witness ==
  \E id \in Ids :
    /\ resp = Resp("create", Some(id), 500, Null)
    /\ Exists(proposals, id)
    /\ mails[id].client = 1 /\ mails[id].internal = 0
    /\ faults = 1
    /\ \A r \in Slots : reqs[r].op # "create"

(* C21: an authenticated Create whose email, contactName or company is    *)
(* missing or empty in both spellings, or whose email is malformed, is     *)
(* answered 400, inserts no row and sends no notification.                 *)
C21_CreateValidation ==
  [][(input.op = "create" /\ CreateAsked /\ Admitted /\ BadCreateBody(input.body)) =>
       /\ resp' = Resp("create", Null, 400, Null)
       /\ proposals' = proposals
       /\ mails' = mails
       /\ reqs' = reqs]_vars

\* a Create refused whose contactName is absent in camelCase and empty in snake_case
C21_Witness ==
  /\ input.op = "create"
  /\ IsNull(input.body.contactName) /\ input.body.contact_name = Some(EmptyStr)
  /\ input.body.email = Some(GoodEmail) /\ ~Missing(input.body.company)
  /\ resp = Resp("create", Null, 400, Null)

(* C22: a row inserted by Create has status 'sent', payment_status         *)
(* 'unpaid', open_count 0, and opened_at, signature_name, signature_data,  *)
(* signed_at and stripe_session_id null.                                   *)
C22_InitialRow ==
  [][\A id \in Ids :
       Inserted(id) =>
         /\ Row(id)'.status = "sent"
         /\ Row(id)'.payment_status = "unpaid"
         /\ Row(id)'.open_count = 0
         /\ IsNull(Row(id)'.opened_at)
         /\ IsNull(Row(id)'.signature_name)
         /\ IsNull(Row(id)'.signature_data)
         /\ IsNull(Row(id)'.signed_at)
         /\ IsNull(Row(id)'.stripe_session_id)]_vars

\* a row just inserted: its Create has not sent the client mail yet
C22_Witness ==
  \E r \in Slots :
    /\ reqs[r].op = "create" /\ reqs[r].pc = "clientMail"
    /\ Exists(proposals, reqs[r].id)
    /\ now = MaxTime

(* C23: no two stored rows share an id and an id is never given to a      *)
(* second record; a Create whose generated id is taken is answered 500,    *)
(* changes no row and sends no notification.                               *)
C23_IdsUnique ==
  [][/\ UniqueIds(proposals')
     /\ \A id \in Ids :
          /\ Exists(proposals, id) => SameRecord(id)
          /\ (CreateDrew(id) /\ Exists(proposals, id)) =>
               /\ resp' = Resp("create", Some(id), 500, Null)
               /\ proposals' = proposals
               /\ mails' = mails
               /\ reqs' = reqs]_vars

\* a Create refused on a taken id, at a later time than the row's creation,
\* with no notification failure in the run
C23_Witness ==
  \E id \in Ids :
    /\ resp = Resp("create", Some(id), 500, Null)
    /\ faults = 0
    /\ Exists(proposals, id)
    /\ Row(id).created_at < now

(* C24: a Create is not ended by the collision of its generated id: while  *)
(* some id is unused, the request whose INSERT is refused goes on to       *)
(* another id, it is not answered with nothing stored.                     *)
C24_CreateRetries ==
  [][\A id \in Ids :
       (/\ CreateDrew(id) /\ Exists(proposals, id)
        /\ \E free \in Ids \cup {UnknownId} : ~Exists(proposals, free)) =>
         ~(resp' # NoResp /\ resp'.op = "create" /\ proposals' = proposals)]_vars

(* C25: a Sign whose signatureName or signatureData is missing or empty,   *)
(* or whose signatureData is longer than 500000 characters, is answered    *)
(* 400 and changes no row, whether the id is unknown, sent, signed or paid.*)
C25_SignValidation ==
  [][(input.op = "sign" /\ SignAsked(input.id) /\ BadSignature(input.name, input.data)) =>
       /\ resp' = Resp("sign", Some(input.id), 400, Null)
       /\ proposals' = proposals
       /\ mails' = mails
       /\ reqs' = reqs]_vars

\* a Sign with an image one character too long refused on a proposal still 'sent'
C25_Witness ==
  /\ input.op = "sign"
  /\ input.name = Some(Str("J")) /\ input.data = Some(MaxSigLen + 1)
  /\ Exists(proposals, input.id) /\ ~Signed(input.id)
  /\ resp = Resp("sign", Some(input.id), 400, Null)

(* C26: a Sign whose UPDATE matched no row is answered 404 exactly when no *)
(* proposal has the id and 409 exactly when one has, and it is answered    *)
(* 409 only when the stored status is 'signed'.                            *)
C26_NotFoundOrConflict ==
  [][\A id \in Ids :
       SignReread(id) =>
         /\ resp'.code = 404 <=> ~Exists(proposals, id)
         /\ resp'.code = 409 <=> Exists(proposals, id)
         /\ resp'.code = 409 => Signed(id)]_vars

(* C27: a List answered with a page has limit in 1..200 (50 when the       *)
(* parameter is absent, empty, zero or not a number, 200 for larger        *)
(* values, 1 for negative ones, the value itself in between), offset >= 0, *)
(* at most limit summaries of stored rows, each once, in non-increasing    *)
(* created_at, and total equal to the number of stored rows.               *)
C27_ListBounded ==
  ListAnswered =>
    LET page == resp.body.proposals
        limit == resp.body.limit
        offset == resp.body.offset
    IN  /\ limit \in 1..MaxLimit
        /\ input.limit \in {Null, Some(EmptyStr), Some(Str("0")), Some(<<"a", "b", "c">>)}
             => limit = DefaultLimit
        /\ input.limit \in {Some(<<"2", "0", "1">>), Some(<<"5", "0", "0", "0">>)}
             => limit = MaxLimit
        /\ input.limit = Some(<<"2", "0", "0">>) => limit = MaxLimit
        /\ input.limit = Some(<<"-", "5">>) => limit = 1
        /\ input.limit = Some(Str("1")) => limit = 1
        /\ input.limit = Some(Str("2")) => limit = 2
        /\ offset >= 0
        /\ input.offset \in {Null, Some(Str("0")), Some(<<"-", "1">>), Some(Str("x"))} => offset = 0
        /\ input.offset = Some(Str("2")) => offset = 2
        /\ Len(page) <= limit
        /\ \A i \in DOMAIN page :
             /\ Exists(proposals, page[i].id)
             /\ page[i] = Summary(proposals[page[i].id])
        /\ \A i, j \in DOMAIN page :
             i < j => page[i].id # page[j].id /\ page[i].created_at >= page[j].created_at
        /\ resp.body.total = Cardinality(StoredIds(proposals))

\* the second page of one, of three stored proposals created at two different times
C27_Witness ==
  /\ ListAnswered
  /\ input.limit = Some(Str("1")) /\ input.offset = Some(Str("1"))
  /\ Len(resp.body.proposals) = 1
  /\ resp.body.total = 3
  /\ \E i, j \in StoredIds(proposals) : proposals[i].created_at < proposals[j].created_at

(* C28: no step of a checkout request, of a payment-status read or of a   *)
(* List changes any row, whatever the request is answered; a checkout that *)
(* created its session leaves payment_status and stripe_session_id alone.  *)
C28_ReadOnlyRequests ==
  [][input.op \in {"checkout", "status", "list"} => proposals' = proposals]_vars

\* a checkout has created its session and the row is unpaid with no session id
C28_Witness ==
  /\ input.op = "checkout"
  /\ resp = Resp("checkout", Some(input.id), 200, "url")
  /\ Len(sessions) = 1
  /\ Row(input.id).payment_status = "unpaid"
  /\ IsNull(Row(input.id).stripe_session_id)

(* C29: a Create or a List that carries neither a valid JWT nor the        *)
(* configured API key is answered 401; it inserts nothing, sends no        *)
(* notification, starts no handler and returns no page.                    *)
C29_AdminOnly ==
  [][(input.op \in {"create", "list"} /\ NoCredential(input.auth, input.env)) =>
       /\ proposals' = proposals
       /\ mails' = mails
       /\ reqs' = reqs
       /\ resp' # NoResp => resp'.code = 401 /\ IsNull(resp'.body)]_vars


(* C30: the amount of a checkout session is the proposal's total_price in  *)
(* cents rounded to a nearest whole cent: it differs from the price by at  *)
(* most half a cent, for every price from 0.001 to 1.010 dollars in steps  *)
(* of a thousandth.                                                        *)
C30_NearestCent ==
  input.op = "checkout" =>
    \A s \in 1..Len(sessions) :
      LET price == Val(Row(sessions[s].pid).total_price)
          cents == sessions[s].amount
      IN  /\ 10 * cents - price <= 5
          /\ price - 10 * cents <= 5

\* a price of 1.006 dollars has been sent to the gateway as 101 cents
C30_Witness ==
  /\ input.op = "checkout"
  /\ Len(sessions) = 1
  /\ Row(sessions[1].pid).total_price = Some(1006)
  /\ sessions[1].amount = 101

---------------------------------------------------------------------------
(* C31: for a proposal created with one of the three tiers, the trainee    *)
(* total of the email and of the proposal page is the tier's base (3, 10,  *)
(* 25) plus the extra trainees, and the kit total is the base (1, 2, 4)    *)
(* plus the extra kits.                                                    *)
C31_DerivedTotals ==
  PackageOffered =>
    /\ \A r \in Slots : reqs[r].op = "create" => reqs[r].html = PackageTotals
    /\ PageLoaded => summaryRows(resp.body) = PackageTotals

\* professional with two extra trainees: the email being sent and the page both show 5
C31_Witness ==
  /\ PackageOffered
  /\ input.body.tier = Some("professional")
  /\ input.body.extraTrainees = Some(2)
  /\ \E r \in Slots : reqs[r].op = "create" /\ reqs[r].html.trainees = Some(5)
  /\ PageLoaded /\ summaryRows(resp.body).trainees = Some(5)

---------------------------------------------------------------------------
(* C32: the requests the proposal page makes by itself after a payment,    *)
(* up to 10 payment-status requests and then the refetch of the proposal,  *)
(* never increment open_count.                                             *)
C32_PollingLeavesOpens ==
  [][input.op = "poll" =>
       \A id \in Ids : Exists(proposals, id) =>
         Row(id)'.open_count = Row(id).open_count]_vars

---------------------------------------------------------------------------
(* C33: a stored record is never deleted; a step changes either its open   *)
(* tracking only, or its status and signature only, or its payment only,   *)
(* and never its id, contact_name, company, email, tier or total_price.    *)
C33_MutationFrame ==
  [][\A id \in Ids : Exists(proposals, id) =>
       /\ Exists(proposals', id)
       /\ OfferKept(id)
       /\ OnlyOpenTracking(id) \/ OnlySigning(id) \/ OnlyPayment(id)]_vars

\* a record that was opened, signed and paid and still carries the offer of its Create
C33_Witness ==
  \E id \in Ids :
    /\ Exists(proposals, id)
    /\ Row(id).open_count > 0 /\ Signed(id) /\ Paid(id)
    /\ Row(id).contact_name = Some(Str("J")) /\ Row(id).total_price = Some(5000)

---------------------------------------------------------------------------
(* C34: Create stores, for a field with two spellings, the camelCase value *)
(* when the body has one and the snake_case value otherwise; a camelCase 0 *)
(* or false is stored as given, not replaced by the other spelling or by a *)
(* default.                                                                *)
C34_CanonicalSpelling ==
  \A id \in Ids : StoredFromInput(id) =>
    LET body == input.body IN
    /\ Row(id).contact_name = Named(body.contactName, body.contact_name)
    /\ Row(id).company = Named(body.company, body.company_name)
    /\ Row(id).email = Named(body.email, body.contact_email)
    /\ Row(id).total_price = Named(body.totalPrice, body.total_price)
    /\ Row(id).extra_trainees = NamedOr(body.extraTrainees, body.extra_trainees, Some(0))
    /\ Row(id).extra_kits = NamedOr(body.extraKits, body.extra_kits, Some(0))
    /\ Row(id).let_client_choose =
         NamedOr(body.letClientChoose, body.let_client_choose, Some(FALSE))

\* camelCase 0, false and 0 beside snake_case 1, true and 7.000: the former are stored
C34_Witness ==
  \E id \in Ids :
    /\ StoredFromInput(id)
    /\ input.body.extraTrainees = Some(0) /\ input.body.extra_trainees = Some(1)
    /\ input.body.letClientChoose = Some(FALSE) /\ input.body.let_client_choose = Some(TRUE)
    /\ input.body.totalPrice = Some(0) /\ input.body.total_price = Some(7000)
    /\ Row(id).extra_trainees = Some(0)
    /\ Row(id).let_client_choose = Some(FALSE)
    /\ Row(id).total_price = Some(0)

---------------------------------------------------------------------------
(* C35: a Sign request answered 400, 404 or 409 changes no record, at its  *)
(* UPDATE or at its answer, and the signature_name, signature_data and     *)
(* signed_at of a signed record are never written again.                   *)
C35_RefusedSignFrame ==
  [][/\ (SignRefused \/ SignMissed) => proposals' = proposals
     /\ SignAnswerFollowsUpdate
     /\ \A id \in Ids : (Exists(proposals, id) /\ Signed(id)) => SignatureKept(id)]_vars

\* a Sign answered 409 at time 2 on a record signed by "J" at time 1
C35_Witness ==
  \E id \in Ids :
    /\ Exists(proposals, id) /\ Signed(id)
    /\ Row(id).signature_name = Some(Str("J")) /\ Row(id).signed_at = Some(1)
    /\ now = 2
    /\ resp = Resp("sign", Some(id), 409, Null)

---------------------------------------------------------------------------
(* C36: over any interleaving of Sign requests on a proposal, the 'signed'  *)
(* notification is dispatched at most once, and only by the request whose  *)
(* UPDATE changed status to 'signed'.                                      *)
C36_SignedNotifiedOnce ==
  [][\A id \in Ids :
       /\ SignedDispatches(id)' <= 1
       /\ SignGoesToNotify(id) => (~Signed(id) /\ Signed(id)')
       /\ mails'[id].signed # mails[id].signed =>
            \E r \in SignsNotifying(id) : reqs'[r] = Idle]_vars

\* one notification sent, and another Sign of the same proposal answered 409
C36_Witness ==
  \E id \in Ids :
    /\ mails[id].signed = 1
    /\ signLog[id].ok = 1 /\ signLog[id].conflict = 1

---------------------------------------------------------------------------
(* C37: the stored email of every proposal passes the well-formedness      *)
(* check that Create applies to its input: a non-empty local part, one @,  *)
(* a domain with a dot inside, no blank.                                   *)
C37_StoredEmailValid ==
  \A id \in Ids : Exists(proposals, id) => isValidEmail(Val(Row(id).email))

---------------------------------------------------------------------------
(* C38: the amount of every checkout session, in cents, is a positive      *)
(* integer, whatever price above 0 the proposal carries.                   *)
C38_AmountPositive ==
  \A s \in DOMAIN sessions : sessions[s].amount >= 1

---------------------------------------------------------------------------
(* C39: in every state, opened_at of a proposal is null exactly when its   *)
(* open_count is 0, and open_count never decreases.                        *)
C39_OpenedIffCounted ==
  [][\A id \in Ids : Exists(proposals', id) =>
       /\ IsNull(Row(id)'.opened_at) <=> Row(id)'.open_count = 0
       /\ Exists(proposals, id) => Row(id)'.open_count >= Row(id).open_count]_vars

\* a proposal opened twice, first at time 1, seen at time 2
C39_Witness ==
  \E id \in Ids :
    /\ Exists(proposals, id)
    /\ Row(id).open_count = 2 /\ Row(id).opened_at = Some(1)
    /\ now = 2 /\ NoViewInFlight(id)

---------------------------------------------------------------------------
(* C40: after any interleaving of setup requests, concurrent ones with     *)
(* different emails included, admin_users holds at most one user.          *)
C40_OneAdmin == Len(admin_users) <= 1

====
